---- MODULE Spec2Model ----
(***************************************************************************)
(* Trade-signal dispatch pipeline of the market service.                   *)
(*                                                                         *)
(*  - api/handlers.rs, receive_webhook_alert: builds the TradeSignal,      *)
(*    spawns the detached dispatch task, then inserts the alert row and    *)
(*    answers the alert source.                                            *)
(*  - strategy_manager/mod.rs, StrategyManager::handle_event: looks the    *)
(*    strategy up and runs the retry loop of lines 113-131.  In this       *)
(*    snapshot of the repository that loop body is commented out (the      *)
(*    compiled function returns Ok(()) right after `let mut retries = 0`); *)
(*    the model follows the loop as it is written there, statement by      *)
(*    statement.                                                           *)
(*                                                                         *)
(* TradeSignal::from_alert_data and the broker behind execute_order are    *)
(* not part of the sources at hand; they are modelled from the written     *)
(* specification (sections 4.3 and 8).                                     *)
(***************************************************************************)
EXTENDS Integers, FiniteSets, Sequences, TLC

\* ----------------------------------------------------------------- bounds
\* largest max_event_retries a loaded strategy carries
MaxRetries == 2
\* largest k of a broker that fails exactly k times and then succeeds
MaxFails == 3
\* longest event_retry_delay a loaded strategy carries, in clock ticks
MaxDelay == 2
\* the alerts that can be in the system at once
Alerts == {"a1", "a2"}
\* the query requests that can be in the system at once
Queries == {"q1"}
\* strategy ids an alert may name; "u3" is never in the table
Uuids == {"u1", "u2", "u3"}
\* the ghost call counters stop counting here (only a runaway loop gets there)
AttemptCap == (IF MaxFails < MaxRetries THEN MaxRetries ELSE MaxFails) + 1

\* -------------------------------------------------------------- constants
\* retries and max_event_retries are u8
U8Mod == 256

VARIABLES
    strategies,   \* StrategyManager.strategies: Vec<Strategy>, loaded once
    loaded,       \* ghost: the Vec<Strategy> as StrategyManager::new built it
    alert,        \* per alert: how it arrived and the strategy_id it carries
    http,         \* receive_webhook_alert's position: "idle", "inserting", "done"
    response,     \* what the alert source was answered
    recorded,     \* outcome of the INSERT INTO alerts: "none", "ok", "failed"
    task,         \* state of the dispatch of the alert (the retry state machine)
    retries,      \* the loop's `retries` counter
    order,        \* the Order made by create_order
    faults,       \* the broker's fault schedule for this dispatch
    attempts,     \* ghost: execute_order calls made for the alert
    submitted,    \* ghost: the Orders handed to execute_order
    created,      \* ghost: create_order calls made for the alert
    result,       \* what handle_event returned
    errOrder,     \* the Order carried by TradeError::MaxRetriesReached(order)
    inflight,     \* ghost: execute_order calls that have not returned yet
    afterCalls,   \* ghost: broker calls made for the Order after the loop ended
    sleepFor,     \* the duration handed to tokio::time::sleep
    slept,        \* clock ticks gone by since that sleep began (up to sleepFor)
    sleeps,       \* ghost: sleeps begun by the loop
    waited,       \* ghost: <<asked, slept>> of every sleep the loop woke from
    query         \* the read-only query requests (get_account, ...)

httpVars == <<http, response, recorded>>
loopVars == <<retries, order, attempts, submitted, created, result, errOrder,
             inflight, afterCalls>>
timeVars == <<sleepFor, slept, sleeps, waited>>
vars == <<strategies, loaded, alert, http, response, recorded, task, retries, order,
          faults, attempts, submitted, created, result, errOrder, inflight,
          afterCalls, sleepFor, slept, sleeps, waited, query>>

\* ------------------------------------------------------------------ types
Strategy(id, enabled, max, delay) ==
    [id |-> id, enabled |-> enabled, max_event_retries |-> max,
     event_retry_delay |-> delay]

NoStrategy ==
    [id |-> "none", enabled |-> FALSE, max_event_retries |-> 0,
     event_retry_delay |-> 0]

NoAlert == [via |-> "none", strategy_id |-> "none"]

NoOrder == [id |-> <<"none", 0>>]

NoFaults == [always |-> FALSE, k |-> 0]

\* a broker that fails exactly k times and then succeeds, or always fails
Schedules ==
    {[always |-> FALSE, k |-> k] : k \in 0..MaxFails} \cup {[always |-> TRUE, k |-> 0]}

\* the strategy files the process may have been started with
Tables ==
    {<<Strategy("u1", TRUE, n, 1), Strategy("u2", e, MaxRetries, 1)>> :
        n \in 0..MaxRetries, e \in BOOLEAN}

\* the strategy files of the single-alert specification: ids may repeat, and
\* the first entry takes every retry budget and delay within the bounds
WideTables ==
    {<<Strategy("u1", e1, n, d), Strategy(id2, e2, 1, 1)>> :
        e1 \in BOOLEAN, n \in 0..(MaxRetries + 1), d \in 1..MaxDelay,
        id2 \in {"u1", "u2"}, e2 \in BOOLEAN}

\* one strategy for every value max_event_retries: u8 can hold
U8Tables == {<<Strategy("u1", TRUE, n, 1)>> : n \in 0..(U8Mod - 1)}

NoAnswer == [ok |-> FALSE, value |-> "none"]

NoQuery == [op |-> "none", stage |-> "idle", calls |-> 0, got |-> NoAnswer,
            status |-> "none", body |-> "none"]

\* the handlers of the query surface
QueryOps == {"get_account", "get_asset", "get_assets", "get_orders", "get_order",
             "get_positions"}

\* what a broker read call may return: Ok(value) or Err(error)
BrokerAnswers ==
    {[ok |-> TRUE, value |-> v] : v \in {"v1", "v2"}} \cup {[ok |-> FALSE, value |-> "e1"]}

Min(x, y) == IF x < y THEN x ELSE y
Max(x, y) == IF x < y THEN y ELSE x

\* --------------------------------------------------------- find_strategy
\* self.strategies.iter().find(|strategy| strategy.id == strategy_id)
RECURSIVE FindFrom(_, _, _)
FindFrom(tbl, i, strategy_id) ==
    IF i > Len(tbl) THEN NoStrategy
    ELSE IF tbl[i].id = strategy_id THEN tbl[i]
    ELSE FindFrom(tbl, i + 1, strategy_id)

\* slip: `.find(..)` falling back to the first strategy of the table
FindStrategy_OrFirst(strategy_id) ==
    IF FindFrom(strategies, 1, strategy_id) = NoStrategy
    THEN strategies[1]
    ELSE FindFrom(strategies, 1, strategy_id)

\* slip: `.rev().find(..)`, the last entry with the id
RECURSIVE FindBack(_, _, _)
FindBack(tbl, i, strategy_id) ==
    IF i < 1 THEN NoStrategy
    ELSE IF tbl[i].id = strategy_id THEN tbl[i]
    ELSE FindBack(tbl, i - 1, strategy_id)

FindStrategy_Last(strategy_id) == FindBack(strategies, Len(strategies), strategy_id)

FindStrategy(strategy_id) == FindFrom(strategies, 1, strategy_id)

\* TradeSignal::from_alert_data(alert, &app.config)
FromAlertData(strategy_id) ==
    LET s == FindStrategy(strategy_id)
    IN  IF s = NoStrategy THEN "UnknownStrategy"
        ELSE IF ~s.enabled THEN "StrategyDisabled"
        ELSE "Ok"

\* ------------------------------------------------------------------- Init
InitRest ==
    /\ loaded = strategies
    /\ alert = [a \in Alerts |-> NoAlert]
    /\ http = [a \in Alerts |-> "idle"]
    /\ response = [a \in Alerts |-> "none"]
    /\ recorded = [a \in Alerts |-> "none"]
    /\ task = [a \in Alerts |-> "none"]
    /\ retries = [a \in Alerts |-> 0]
    /\ order = [a \in Alerts |-> NoOrder]
    /\ faults = [a \in Alerts |-> NoFaults]
    /\ attempts = [a \in Alerts |-> 0]
    /\ submitted = [a \in Alerts |-> {}]
    /\ created = [a \in Alerts |-> 0]
    /\ result = [a \in Alerts |-> "none"]
    /\ errOrder = [a \in Alerts |-> NoOrder]
    /\ inflight = [a \in Alerts |-> 0]
    /\ afterCalls = [a \in Alerts |-> {}]
    /\ sleepFor = [a \in Alerts |-> 0]
    /\ slept = [a \in Alerts |-> 0]
    /\ sleeps = [a \in Alerts |-> 0]
    /\ waited = [a \in Alerts |-> {}]
    /\ query = [q \in Queries |-> NoQuery]

Init == strategies \in Tables /\ InitRest

\* the single-alert specification starts from any of the wider tables
TableInit == strategies \in WideTables /\ InitRest

\* --------------------------------------------------- receive_webhook_alert
\* Lines 28-38: build the signal (`?` answers the alert source at once when
\* that fails), pick the client, spawn the detached dispatch task.
ReceiveWebhookAlert(a, strategy_id, f) ==
    /\ alert[a] = NoAlert
    /\ alert' = [alert EXCEPT ![a] = [via |-> "webhook", strategy_id |-> strategy_id]]
    /\ IF FromAlertData(strategy_id) # "Ok"
       THEN /\ response' = [response EXCEPT ![a] = FromAlertData(strategy_id)]
            /\ http' = [http EXCEPT ![a] = "done"]
            /\ UNCHANGED <<task, faults>>
       ELSE /\ task' = [task EXCEPT ![a] = "Pending"]
            /\ faults' = [faults EXCEPT ![a] = f]
            /\ http' = [http EXCEPT ![a] = "inserting"]
            /\ UNCHANGED response
    /\ UNCHANGED <<strategies, loaded, query, recorded, loopVars, timeVars>>

\* slip: the handler looks at the dispatch before it answers
IngestionResponse_AwaitsTask(a, dbOk) ==
    IF task[a] = "Failed" THEN "ExecutionFailed"
    ELSE IF dbOk THEN "Created" ELSE "DbError"

\* the answer once the insert has returned: `.await?` then 201 Created
IngestionResponse(a, dbOk) == IF dbOk THEN "Created" ELSE "DbError"

\* Lines 40-78: the INSERT INTO alerts returns, the handler answers.
InsertAlert(a, dbOk) ==
    /\ http[a] = "inserting"
    /\ recorded' = [recorded EXCEPT ![a] = IF dbOk THEN "ok" ELSE "failed"]
    /\ response' = [response EXCEPT ![a] = IngestionResponse(a, dbOk)]
    /\ http' = [http EXCEPT ![a] = "done"]
    /\ UNCHANGED <<strategies, loaded, query, alert, task, faults, loopVars, timeVars>>

\* -------------------------------------------------------------- dispatcher
\* An AlertData event is handed to the EventHandler (StrategyManager).
DispatchEvent(a, strategy_id, f) ==
    /\ alert[a] = NoAlert
    /\ alert' = [alert EXCEPT ![a] = [via |-> "event", strategy_id |-> strategy_id]]
    /\ task' = [task EXCEPT ![a] = "Pending"]
    /\ faults' = [faults EXCEPT ![a] = f]
    /\ UNCHANGED <<strategies, loaded, query, httpVars, loopVars, timeVars>>

\* ------------------------------------------------------------ handle_event
\* strategy.broker.create_order(event): a new Order with its own id
CreateOrder(a) == [id |-> <<a, created[a] + 1>>]

\* slip: create_order called inside the loop, a new Order per attempt
SubmittedOrder_Recreated(a) == [id |-> <<a, attempts[a] + 1>>]

\* the Order handed to execute_order(&order)
SubmittedOrder(a) == order[a]

\* slip: the counter is not incremented
NextRetries_Stuck(r) == r

\* retries += 1  (u8)
NextRetries(r) == (r + 1) % U8Mod

\* slip: `>` in place of `>=`
GiveUp_Strict(r, max) == r > max

\* if retries >= strategy.max_event_retries
GiveUp(r, max) == r >= max

\* does the broker fail the call that is in flight (the attempts[a]-th)?
BrokerFails(a) == faults[a].always \/ attempts[a] <= faults[a].k

\* slip: no `return Ok(())` on success, the loop goes on as after a failure
LoopStep_NoReturn(ok, r, max) ==
    IF (r + 1) % U8Mod >= max
    THEN [task |-> "Failed", retries |-> (r + 1) % U8Mod, result |-> "MaxRetriesReached"]
    ELSE [task |-> "RetryScheduled", retries |-> (r + 1) % U8Mod, result |-> "none"]

\* slip: the budget is tested on the counter before it is incremented
LoopStep_TestFirst(ok, r, max) ==
    IF ok
    THEN [task |-> "Succeeded", retries |-> r, result |-> "Ok"]
    ELSE IF r >= max
         THEN [task |-> "Failed", retries |-> (r + 1) % U8Mod,
               result |-> "MaxRetriesReached"]
         ELSE [task |-> "RetryScheduled", retries |-> (r + 1) % U8Mod,
               result |-> "none"]

\* one turn of the loop after execute_order returned
LoopStep(ok, r, max) ==
    IF ok
    THEN [task |-> "Succeeded", retries |-> r, result |-> "Ok"]
    ELSE LET r1 == NextRetries(r)
         IN  IF GiveUp(r1, max)
             THEN [task |-> "Failed", retries |-> r1, result |-> "MaxRetriesReached"]
             ELSE [task |-> "RetryScheduled", retries |-> r1, result |-> "none"]

\* the ghost counters count up to one past the largest budget of the table
CallCap ==
    LET budgets == {strategies[i].max_event_retries : i \in 1..Len(strategies)}
        top == CHOOSE m \in budgets : \A n \in budgets : n <= m
    IN  Max(AttemptCap, top + 2)

CountCall(n) == Min(n + 1, CallCap)

\* slip: `while retries < max` in place of `loop`, the test comes first
LoopEntry_PreTest(r, max) == IF r < max THEN "Executing" ELSE "Failed"

\* `loop {`: the body runs before any test of the counter
LoopEntry(r, max) == "Executing"

\* slip: the call is spawned and not awaited, it is still running afterwards
AfterAwait_Detached(n) == n

\* `.await` on execute_order: the call is over when the loop goes on
AfterAwait(n) == n - 1

\* slip: a backoff that grows with the counter
SleepDuration_Backoff(s, r) == s.event_retry_delay * r

\* Duration::from_secs_f64(strategy.event_retry_delay)
SleepDuration(s, r) == s.event_retry_delay

\* slip: a forced cancel_order once the budget is used up
CompensatingCalls_Cancel(outcome) ==
    IF outcome = "Failed" THEN {"cancel_order"} ELSE {}

\* what the loop does with the broker once it has its outcome: nothing
\* (`return Ok(())`, `return Err(..)`)
CompensatingCalls(outcome) == {}

\* the Order inside TradeError::MaxRetriesReached(order)
ReportedOrder(a) == order[a]

\* slip: the strategy is switched off in place when its order keeps failing
StrategiesAfterHandle_Disable(a) ==
    [i \in 1..Len(strategies) |->
        IF strategies[i].id = alert[a].strategy_id /\ retries[a] > 0
        THEN [strategies[i] EXCEPT !.enabled = FALSE]
        ELSE strategies[i]]

\* the table after a step of handle_event(&self, ..): the one before it
StrategiesAfterHandle(a) == strategies

\* slip: the counter kept in the manager, shared by every call in flight
LoopRetries_Shared(a) ==
    CHOOSE m \in {retries[b] : b \in Alerts} : \A b \in Alerts : retries[b] <= m

\* the counter the loop of this call works on: its own local `retries`
LoopRetries(a) == retries[a]

\* Lines 109-116 and 133-135: look the strategy up; if there is none return
\* UnknownStrategy, else set retries to 0, make the Order and call execute_order.
HandleEvent(a) ==
    /\ task[a] = "Pending"
    /\ IF FindStrategy(alert[a].strategy_id) = NoStrategy
       THEN /\ task' = [task EXCEPT ![a] = "Rejected"]
            /\ result' = [result EXCEPT ![a] = "UnknownStrategy"]
            /\ UNCHANGED <<retries, order, attempts, submitted, created,
                           errOrder, inflight>>
       ELSE LET s == FindStrategy(alert[a].strategy_id)
                first == LoopEntry(0, s.max_event_retries)
            IN  /\ retries' = [retries EXCEPT ![a] = 0]
                /\ order' = [order EXCEPT ![a] = CreateOrder(a)]
                /\ created' = [created EXCEPT ![a] = CountCall(created[a])]
                /\ task' = [task EXCEPT ![a] = first]
                /\ IF first = "Executing"
                   THEN /\ attempts' = [attempts EXCEPT ![a] = CountCall(attempts[a])]
                        /\ submitted' = [submitted EXCEPT ![a] = {order'[a]}]
                        /\ inflight' = [inflight EXCEPT ![a] = CountCall(inflight[a])]
                        /\ UNCHANGED <<result, errOrder>>
                   ELSE /\ result' = [result EXCEPT ![a] = "MaxRetriesReached"]
                        /\ errOrder' = [errOrder EXCEPT ![a] = order'[a]]
                        /\ UNCHANGED <<attempts, submitted, inflight>>
    /\ UNCHANGED <<strategies, loaded, query, alert, httpVars, faults, afterCalls, timeVars>>

\* Lines 116-130: execute_order returns; success ends the loop, a failure
\* counts a retry and either gives up or goes to sleep for event_retry_delay.
ExecuteOrderReturns(a) ==
    /\ task[a] = "Executing"
    /\ LET s == FindStrategy(alert[a].strategy_id)
           n == LoopStep(~BrokerFails(a), LoopRetries(a), s.max_event_retries)
       IN  /\ task' = [task EXCEPT ![a] = n.task]
           /\ retries' = [retries EXCEPT ![a] = n.retries]
           /\ result' = [result EXCEPT ![a] = n.result]
           /\ inflight' = [inflight EXCEPT ![a] = AfterAwait(inflight[a])]
           /\ afterCalls' = [afterCalls EXCEPT ![a] = CompensatingCalls(n.task)]
           /\ errOrder' = [errOrder EXCEPT ![a] =
                  IF n.task = "Failed" THEN ReportedOrder(a) ELSE errOrder[a]]
           /\ IF n.task = "RetryScheduled"
              THEN /\ sleepFor' = [sleepFor EXCEPT ![a] = SleepDuration(s, n.retries)]
                   /\ slept' = [slept EXCEPT ![a] = 0]
                   /\ sleeps' = [sleeps EXCEPT ![a] = CountCall(sleeps[a])]
              ELSE UNCHANGED <<sleepFor, slept, sleeps>>
    /\ strategies' = StrategiesAfterHandle(a)
    /\ UNCHANGED <<loaded, query, alert, httpVars, faults, order, attempts,
                   submitted, created, waited>>

\* Line 130: the clock moves on by one tick while some loop is asleep.
Tick ==
    /\ \E a \in Alerts : task[a] = "RetryScheduled" /\ slept[a] < sleepFor[a]
    /\ slept' = [a \in Alerts |->
                    IF task[a] = "RetryScheduled" /\ slept[a] < sleepFor[a]
                    THEN slept[a] + 1 ELSE slept[a]]
    /\ UNCHANGED <<strategies, loaded, query, alert, httpVars, task, faults, loopVars,
                   sleepFor, sleeps, waited>>

\* Lines 130, 116: the sleep is over, the loop calls execute_order again.
RetryDelayElapsed(a) ==
    /\ task[a] = "RetryScheduled"
    /\ slept[a] >= sleepFor[a]
    /\ task' = [task EXCEPT ![a] = "Executing"]
    /\ attempts' = [attempts EXCEPT ![a] = CountCall(attempts[a])]
    /\ submitted' = [submitted EXCEPT ![a] = submitted[a] \cup {SubmittedOrder(a)}]
    /\ inflight' = [inflight EXCEPT ![a] = CountCall(inflight[a])]
    /\ waited' = [waited EXCEPT ![a] = waited[a] \cup {<<sleepFor[a], slept[a]>>}]
    /\ UNCHANGED <<strategies, loaded, query, alert, httpVars, faults, retries, order, created,
                   result, errOrder, afterCalls, sleepFor, slept, sleeps>>

\* ------------------------------------------------------------------- Next
TaskStep(a) == HandleEvent(a) \/ ExecuteOrderReturns(a) \/ RetryDelayElapsed(a)

Next ==
    \/ \E a \in Alerts, id \in Uuids, f \in Schedules : ReceiveWebhookAlert(a, id, f)
    \/ \E a \in Alerts, dbOk \in BOOLEAN : InsertAlert(a, dbOk)
    \/ \E a \in Alerts, id \in Uuids, f \in Schedules : DispatchEvent(a, id, f)
    \/ \E a \in Alerts : HandleEvent(a)
    \/ \E a \in Alerts : ExecuteOrderReturns(a)
    \/ \E a \in Alerts : RetryDelayElapsed(a)
    \/ Tick

Spec == Init /\ [][Next]_vars

\* The runtime runs every spawned task, the clock moves on so every sleep
\* ends, and the broker answers every execute_order call.
FairSpec == Spec /\ WF_vars(Tick) /\ \A a \in Alerts : WF_vars(TaskStep(a))

\* ----------------------------------------------------------- query surface
\* does the handler forward to the broker client?  get_account, get_asset,
\* get_assets, get_orders and get_order do (`client.get_x(..).await?`);
\* get_positions answers (StatusCode::OK, Json::default()) on the spot.
Forwards(op) == op # "get_positions"

\* Lines 100-157, up to the `.await`: the handler picks the client and calls it.
QueryStart(q, op) ==
    /\ query[q].stage = "idle"
    /\ query' = [query EXCEPT ![q] =
          IF Forwards(op)
          THEN [op |-> op, stage |-> "awaiting", calls |-> 1, got |-> NoAnswer,
                status |-> "none", body |-> "none"]
          ELSE [op |-> op, stage |-> "done", calls |-> 0, got |-> NoAnswer,
                status |-> "OK", body |-> "default"]]
    /\ UNCHANGED <<strategies, loaded, alert, httpVars, task, faults, loopVars,
                   timeVars>>

\* Lines 100-150, after the `.await`: `?` propagates the broker's error,
\* otherwise the handler answers (StatusCode::OK, Json(value)).
QueryReturns(q, ans) ==
    /\ query[q].stage = "awaiting"
    /\ query' = [query EXCEPT ![q] =
          [query[q] EXCEPT !.stage = "done",
                           !.got = ans,
                           !.status = IF ans.ok THEN "OK" ELSE "Error",
                           !.body = ans.value]]
    /\ UNCHANGED <<strategies, loaded, alert, httpVars, task, faults, loopVars,
                   timeVars>>

\* --------------------------------------- one alert, queries, wider tables
OneAlert == {"a1"}

TableNext ==
    \/ \E a \in OneAlert, id \in Uuids, f \in Schedules : ReceiveWebhookAlert(a, id, f)
    \/ \E a \in OneAlert, dbOk \in BOOLEAN : InsertAlert(a, dbOk)
    \/ \E a \in OneAlert, id \in Uuids, f \in Schedules : DispatchEvent(a, id, f)
    \/ \E a \in OneAlert : HandleEvent(a)
    \/ \E a \in OneAlert : ExecuteOrderReturns(a)
    \/ \E a \in OneAlert : RetryDelayElapsed(a)
    \/ Tick
    \/ \E q \in Queries, op \in QueryOps : QueryStart(q, op)
    \/ \E q \in Queries, ans \in BrokerAnswers : QueryReturns(q, ans)

TableSpec == TableInit /\ [][TableNext]_vars

\* ------------------------------- one loop, every u8 value of the budget
U8Init == strategies \in U8Tables /\ InitRest

U8Next ==
    \/ \E a \in OneAlert, id \in Uuids, f \in Schedules : DispatchEvent(a, id, f)
    \/ \E a \in OneAlert : HandleEvent(a)
    \/ \E a \in OneAlert : ExecuteOrderReturns(a)
    \/ \E a \in OneAlert : RetryDelayElapsed(a)
    \/ Tick

U8Spec == U8Init /\ [][U8Next]_vars

\* the same loop with the scheduling the runtime gives it: the clock
\* advances, and a spawned task that can take a step is polled
FairLoopSpec ==
    U8Spec /\ WF_vars(Tick) /\ \A a \in OneAlert : WF_vars(TaskStep(a))

TypeOK ==
    /\ strategies \in Tables \cup WideTables \cup U8Tables
    /\ loaded = strategies
    /\ \A a \in Alerts :
        /\ http[a] \in {"idle", "inserting", "done"}
        /\ response[a] \in {"none", "Created", "UnknownStrategy", "StrategyDisabled",
                            "DbError"}
        /\ recorded[a] \in {"none", "ok", "failed"}
        /\ task[a] \in {"none", "Pending", "Executing", "RetryScheduled",
                        "Succeeded", "Failed", "Rejected"}
        /\ retries[a] \in 0..(U8Mod - 1)
        /\ attempts[a] \in 0..CallCap
        /\ inflight[a] \in 0..1
        /\ slept[a] \in 0..sleepFor[a]
        /\ result[a] \in {"none", "Ok", "UnknownStrategy", "MaxRetriesReached"}

\* ------------------------------------------------------------ vocabulary
InTable(strategy_id) == \E i \in 1..Len(strategies) : strategies[i].id = strategy_id

\* the table holds a strategy with this id and every such strategy is disabled
DisabledInTable(strategy_id) ==
    /\ InTable(strategy_id)
    /\ \A i \in 1..Len(strategies) :
        strategies[i].id = strategy_id => ~strategies[i].enabled

EnabledInTable(strategy_id) ==
    /\ InTable(strategy_id)
    /\ \A i \in 1..Len(strategies) :
        strategies[i].id = strategy_id => strategies[i].enabled

MaxRetriesOf(a) == FindStrategy(alert[a].strategy_id).max_event_retries

Terminal(a) == task[a] \in {"Succeeded", "Failed"}

\* ---------------------------------------------------------------- claims

\* C1: with max_retries = n and a broker that fails exactly k times and then
\* succeeds, the loop ends Succeeded after k+1 execute_order calls when
\* k <= n, and ends Failed with MaxRetriesReached after n+1 calls when k > n
\* (an always-failing broker is k > n for every n).
C1_RetryBudget ==
    \A a \in Alerts :
        Terminal(a) =>
            IF ~faults[a].always /\ faults[a].k <= MaxRetriesOf(a)
            THEN task[a] = "Succeeded" /\ attempts[a] = faults[a].k + 1
            ELSE /\ task[a] = "Failed"
                 /\ attempts[a] = MaxRetriesOf(a) + 1
                 /\ result[a] = "MaxRetriesReached"

\* C2: when the insert of a webhook alert fails, no dispatch task has been
\* scheduled for the alert and no execute_order call is made for it; a
\* dispatch is scheduled only after the recording has succeeded.
C2_NoDispatchWithoutRecord ==
    \A a \in Alerts :
        alert[a].via = "webhook" =>
            /\ recorded[a] = "failed" => task[a] = "none" /\ attempts[a] = 0
            /\ task[a] # "none" => recorded[a] = "ok"

\* C3: an alert naming a strategy that exists with enabled = false fails
\* with StrategyDisabled; no Order is created and no execute_order call is
\* made for it.
C3_DisabledNeverExecutes ==
    \A a \in Alerts :
        (alert[a] # NoAlert /\ DisabledInTable(alert[a].strategy_id)) =>
            /\ order[a] = NoOrder
            /\ created[a] = 0
            /\ attempts[a] = 0
            /\ task[a] \notin {"none", "Pending"} => result[a] = "StrategyDisabled"

\* C4: a webhook alert whose resolution fails (UnknownStrategy or
\* StrategyDisabled) is still inserted into the alerts table by the time the
\* handler has answered.
C4_UnresolvedStillRecorded ==
    \A a \in Alerts :
        (alert[a].via = "webhook" /\ http[a] = "done"
            /\ ~EnabledInTable(alert[a].strategy_id)) => recorded[a] # "none"

\* C5: an alert whose strategy_id matches no strategy of the table fails
\* with UnknownStrategy; no Order is created and no execute_order call is
\* made for it.
C5_UnknownStrategyNoOrder ==
    \A a \in Alerts :
        (alert[a] # NoAlert /\ ~InTable(alert[a].strategy_id)) =>
            /\ order[a] = NoOrder
            /\ created[a] = 0
            /\ attempts[a] = 0
            /\ submitted[a] = {}
            /\ task[a] \in {"none", "Pending", "Rejected"}
            /\ task[a] = "Rejected" => result[a] = "UnknownStrategy"
            /\ alert[a].via = "webhook" =>
                task[a] = "none" /\ response[a] = "UnknownStrategy"

C5_Witness ==
    \E a \in Alerts :
        /\ alert[a].via = "event"
        /\ ~InTable(alert[a].strategy_id)
        /\ task[a] = "Rejected"
        /\ result[a] = "UnknownStrategy"

\* C6: the answer to the alert source does not depend on the execution: two
\* webhook alerts with the same strategy_id and the same insert outcome get
\* the same answer whatever their brokers do and wherever their dispatch
\* tasks are, and the handler's last step never waits for the dispatch task.
C6_ResponseIgnoresExecution ==
    /\ \A a, b \in Alerts :
        (/\ alert[a].via = "webhook" /\ alert[b].via = "webhook"
         /\ alert[a].strategy_id = alert[b].strategy_id
         /\ http[a] = "done" /\ http[b] = "done"
         /\ recorded[a] = recorded[b]) => response[a] = response[b]
    /\ \A a \in Alerts :
        http[a] = "inserting" => ENABLED (\E dbOk \in BOOLEAN : InsertAlert(a, dbOk))

C6_Witness ==
    \E a, b \in Alerts :
        /\ a # b
        /\ alert[a].via = "webhook" /\ alert[b].via = "webhook"
        /\ alert[a].strategy_id = alert[b].strategy_id
        /\ response[a] = "Created" /\ response[b] = "Created"
        /\ task[a] = "Failed"
        /\ task[b] = "Pending"

\* C7: a resolution error is never returned to the alert source: the answer
\* to a webhook alert that fails resolution is decided by the recording
\* outcome alone, as for an alert that resolves.
C7_ResolutionErrorNotReturned ==
    \A a \in Alerts :
        (alert[a].via = "webhook" /\ http[a] = "done"
            /\ ~EnabledInTable(alert[a].strategy_id)) =>
            /\ response[a] \in {"Created", "DbError"}
            /\ response[a] = "Created" <=> recorded[a] = "ok"

C11_QueriesForwardOnce ==
    \A q \in Queries :
        query[q].stage = "done" =>
            /\ query[q].calls = 1
            /\ query[q].got # NoAnswer
            /\ query[q].status = (IF query[q].got.ok THEN "OK" ELSE "Error")
            /\ query[q].body = query[q].got.value

RECURSIVE RunAlone(_, _, _, _)
RunAlone(max, f, r, calls) ==
    LET n == LoopStep(~(f.always \/ calls <= f.k), r, max)
    IN  IF n.task = "RetryScheduled" /\ calls < CallCap
        THEN RunAlone(max, f, n.retries, calls + 1)
        ELSE [task |-> n.task, attempts |-> calls, retries |-> n.retries,
              result |-> n.result]

LoopTransitions ==
    {<<"Pending", "Executing">>, <<"Executing", "Succeeded">>,
     <<"Executing", "RetryScheduled">>, <<"RetryScheduled", "Executing">>,
     <<"Executing", "Failed">>}

C18_TableNeverChanges ==
    /\ strategies = loaded
    /\ \A id \in Uuids :
        \/ FindStrategy(id) = NoStrategy
        \/ \E i \in 1..Len(loaded) : FindStrategy(id) = loaded[i]

C18_Witness ==
    \E a \in Alerts, q \in Queries :
        /\ alert[a].via = "webhook"
        /\ recorded[a] = "ok"
        /\ task[a] = "Failed"
        /\ attempts[a] >= 2
        /\ query[q].stage = "done"
        /\ strategies = loaded

Places(strategy_id) == {i \in 1..Len(strategies) : strategies[i].id = strategy_id}

FirstPlace(strategy_id) ==
    CHOOSE i \in Places(strategy_id) : \A j \in Places(strategy_id) : i <= j

\* C20: find_strategy(id) finds a strategy exactly when some entry of the
\* table has the id, and then it is the first such entry in load order; with
\* two entries of one id the first alone decides what handle_event does (its
\* retry budget and its delay govern the loop), the later entry is never
\* selected.
C20_FirstMatchWins ==
    /\ \A id \in Uuids :
        IF Places(id) = {}
        THEN FindStrategy(id) = NoStrategy
        ELSE FindStrategy(id) = strategies[FirstPlace(id)]
    /\ \A a \in Alerts :
        (alert[a] # NoAlert /\ Places(alert[a].strategy_id) # {}) =>
            LET first == strategies[FirstPlace(alert[a].strategy_id)]
            IN  /\ task[a] = "RetryScheduled" =>
                    /\ retries[a] < first.max_event_retries
                    /\ sleepFor[a] = first.event_retry_delay
                /\ task[a] = "Failed" => retries[a] >= first.max_event_retries
                /\ (task[a] = "Failed" /\ faults[a].always) =>
                    retries[a] = Max(1, first.max_event_retries)

C20_Witness ==
    \E a \in Alerts :
        /\ Len(strategies) = 2
        /\ strategies[1].id = strategies[2].id
        /\ ~strategies[1].enabled
        /\ strategies[2].enabled
        /\ strategies[1].max_event_retries > strategies[2].max_event_retries + 1
        /\ alert[a] = [via |-> "event", strategy_id |-> strategies[1].id]
        /\ task[a] = "Failed"
        /\ retries[a] = strategies[1].max_event_retries
====
